---- MODULE Spec2Model ----
(***************************************************************************)
(* Model of app.js: the notification state controller (OneSignal SDK       *)
(* callbacks, checkAndUpdateStatus, handleEnableNotifications,             *)
(* updateUIStatus), the PWA install flow (beforeinstallprompt,             *)
(* handleInstallClick, appinstalled) and the start-up code (init).         *)
(*                                                                         *)
(* The browser runs one handler at a time; a handler gives up control only *)
(* at an await.  Every action below is one such run-to-completion piece:   *)
(* from the entry of a handler (or the resumption of an await) up to the   *)
(* next await or the handler's end.                                        *)
(***************************************************************************)
EXTENDS Integers, Sequences, FiniteSets, TLC

VARIABLES
    env,                      \* what the platform probes answer (fixed for the page)
    isSubscriptionConfirmed,  \* app.js:75
    ui,                       \* DOM: badge classes, status text, button disabled/label
    currentStatus,            \* the argument of the last updateUIStatus call
    sdk,                      \* "stub": window.OneSignal is the array; "ready": init callback ran
    timerPending,             \* the setTimeout of app.js:103 is armed
    appInit,                  \* init() has run
    evalCalls,                \* calls of checkAndUpdateStatus, in order of start
    enableCalls,              \* calls of handleEnableNotifications, in order of start
    registerRequests,         \* calls issued to OneSignal.registerForPushNotifications
    deferredInstallPrompt,    \* app.js:51; 0 is null, c > 0 the c-th capability
    installCard,              \* [hidden |-> installCard has class 'hidden']
    btnInstall,               \* [label, onclick] of the install button
    installCalls,             \* calls of handleInstallClick, in order of start
    promptCalls,              \* per capability, calls of prompt()
    capsDelivered,            \* number of beforeinstallprompt events so far
    installClicks,            \* clicks on the install button so far
    manualShown,              \* alerts raised by showManualInstallInstructions
    consumedClicks            \* install clicks handled with a used capability and none stored

vars == << env, isSubscriptionConfirmed, ui, currentStatus, sdk, timerPending,
           appInit, evalCalls, enableCalls, registerRequests,
           deferredInstallPrompt, installCard, btnInstall, installCalls,
           promptCalls, capsDelivered, installClicks, manualShown,
           consumedClicks >>

notifVars == << isSubscriptionConfirmed, ui, currentStatus, sdk, timerPending,
                evalCalls, enableCalls, registerRequests >>

installVars == << deferredInstallPrompt, installCard, btnInstall, installCalls,
                  promptCalls, capsDelivered, installClicks, manualShown,
                  consumedClicks >>

----------------------------------------------------------------------------
(* Bounds *)

\* clicks on the notification button
MaxClicks == 2
\* beforeinstallprompt events (capabilities delivered)
MaxCaps == 2
\* clicks on the install button
MaxInstallClicks == 2

----------------------------------------------------------------------------
(* DeviceCapabilityProbe *)

Env == { e \in [ notification : BOOLEAN, serviceWorker : BOOLEAN,
                 pushManager : BOOLEAN, ios : BOOLEAN, android : BOOLEAN,
                 mobile : BOOLEAN, standalone : BOOLEAN ] :
         \* /Android/ is one of the alternatives of the isMobileDevice pattern
         e.android => e.mobile }

isMobileDevice == env.mobile

isIOS == env.ios

isAndroid == env.android

isAppInstalled == env.standalone

arePushNotificationsSupported_NoIOSRule ==
    ~ (~env.notification \/ ~env.serviceWorker)

arePushNotificationsSupported ==
    IF ~env.notification \/ ~env.serviceWorker THEN FALSE
    ELSE IF isIOS /\ ~isAppInstalled THEN FALSE
    ELSE TRUE

----------------------------------------------------------------------------
(* UIPresentationTable: updateUIStatus *)

StyleClasses == {"success", "warning", "error", "hidden"}

Status == {"subscribed", "denied", "default", "error", "domain-error",
           "ios-install-required", "not-supported", "unsubscribed"}

\* a status string that no case of the switch names
UnknownStatus == {"pending"}

ButtonLabels == {"Notifiche Attive", "Notifiche Bloccate", "Installa App per Notifiche",
                 "Non Supportato", "Riattiva Notifiche", "Attiva Notifiche",
                 "Attivazione..."}

StatusTexts == {"", "Notifiche attive", "Notifiche bloccate nel browser",
                "Errore - Ricarica la pagina", "Dominio non configurato su OneSignal",
                "Installa prima l'app sulla Home", "Notifiche non supportate",
                "Notifiche disattivate"}

\* the switch of updateUIStatus, on a badge whose style classes were removed.
\* The cases 'error' and 'domain-error' leave the button's label alone and the
\* default case leaves the status text alone; every other field is assigned.
applyStatus(u, cleared, status) ==
    CASE status = "subscribed" ->
           [badge |-> cleared \cup {"success"}, text |-> "Notifiche attive",
            disabled |-> TRUE, label |-> "Notifiche Attive"]
      [] status = "denied" ->
           [badge |-> cleared \cup {"error"}, text |-> "Notifiche bloccate nel browser",
            disabled |-> TRUE, label |-> "Notifiche Bloccate"]
      [] status = "error" ->
           [u EXCEPT !.badge = cleared \cup {"warning"},
                     !.text = "Errore - Ricarica la pagina", !.disabled = FALSE]
      [] status = "domain-error" ->
           [u EXCEPT !.badge = cleared \cup {"error"},
                     !.text = "Dominio non configurato su OneSignal", !.disabled = FALSE]
      [] status = "ios-install-required" ->
           [badge |-> cleared \cup {"warning"}, text |-> "Installa prima l'app sulla Home",
            disabled |-> TRUE, label |-> "Installa App per Notifiche"]
      [] status = "not-supported" ->
           [badge |-> cleared \cup {"error"}, text |-> "Notifiche non supportate",
            disabled |-> TRUE, label |-> "Non Supportato"]
      [] status = "unsubscribed" ->
           [badge |-> cleared \cup {"warning"}, text |-> "Notifiche disattivate",
            disabled |-> FALSE, label |-> "Riattiva Notifiche"]
      [] OTHER ->
           [u EXCEPT !.badge = cleared \cup {"hidden"},
                     !.disabled = FALSE, !.label = "Attiva Notifiche"]

\* classList.remove('success', 'warning', 'error'): 'hidden' forgotten
updateUIStatus_KeepHidden(u, status) ==
    applyStatus(u, u.badge \ {"success", "warning", "error"}, status)

\* the button is flipped instead of being set
updateUIStatus_Flip(u, status) ==
    LET r == applyStatus(u, u.badge \ StyleClasses, status)
    IN  [r EXCEPT !.disabled = IF status = "unsubscribed" THEN ~u.disabled ELSE @]

\* updateUIStatus(status) as a function of the DOM before the call
updateUIStatus(u, status) ==
    applyStatus(u, u.badge \ {"success", "warning", "error", "hidden"}, status)

\* updateUIStatus as a step on the page
Render(status) ==
    /\ ui' = updateUIStatus(ui, status)
    /\ currentStatus' = status

----------------------------------------------------------------------------
(* What the SDK can answer.  The SDK is an external collaborator: each of its
   promises settles with any value of its type, or rejects. *)

\* a rejection whose message includes 'can only be used on', and any other
SdkErrors == {"domain", "other"}

PushEnabledResults == {"true", "false"}

PermissionResults == {"granted", "denied", "default"}

UserIdResults == {"present", "absent"}

IosNotInstalled == isIOS /\ ~isAppInstalled

----------------------------------------------------------------------------
(* NotificationStateController: checkAndUpdateStatus *)

\* "unchanged": the call renders nothing
ApplyResolved(resolved) ==
    IF resolved = "unchanged"
    THEN UNCHANGED << ui, currentStatus >>
    ELSE Render(resolved)

\* a call's position, its locals while it runs, what it resolved to, and
\* whether the listener of lines 108-117 ran with isSubscribed true while the
\* call was suspended
NewEval == [pc |-> "isPushEnabled", isPushEnabled |-> "none", permission |-> "none",
            resolved |-> "none", notified |-> FALSE]

EvalDone(resolved) == [pc |-> "done", isPushEnabled |-> "none", permission |-> "none",
                       resolved |-> resolved, notified |-> FALSE]

\* call c ends, resolved to r
EvalEnd(c, r) == [EvalDone(r) EXCEPT !.notified = c.notified]

\* the calls of checkAndUpdateStatus after a subscriptionChange(true)
EvalNotified ==
    [i \in 1..Len(evalCalls) |->
        IF evalCalls[i].pc = "done" THEN evalCalls[i]
        ELSE [evalCalls[i] EXCEPT !.notified = TRUE]]

\* lines 131-140
EvalUnsupported ==
    IF isIOS /\ ~isAppInstalled THEN "ios-install-required" ELSE "not-supported"

\* lines 155-163 without the guard of line 160
EvalDecide_NoGuard(isPushEnabled, permission, userId, confirmed) ==
    IF isPushEnabled = "true" \/ (permission = "granted" /\ userId = "present")
    THEN "subscribed"
    ELSE IF permission = "denied" THEN "denied"
    ELSE "default"

\* lines 155-163 with the subscriber id left out of the test of line 155
EvalDecide_GrantedAlone(isPushEnabled, permission, userId, confirmed) ==
    IF isPushEnabled = "true" \/ permission = "granted"
    THEN "subscribed"
    ELSE IF permission = "denied" THEN "denied"
    ELSE IF ~confirmed THEN "default"
    ELSE "unchanged"

\* lines 155-163: the status the call renders, "unchanged" when it renders none
EvalDecide(isPushEnabled, permission, userId, confirmed) ==
    IF isPushEnabled = "true" \/ (permission = "granted" /\ userId = "present")
    THEN "subscribed"
    ELSE IF permission = "denied" THEN "denied"
    ELSE IF ~confirmed THEN "default"
    ELSE "unchanged"

\* lines 166-176 without the guard of line 173
EvalCatch_NoGuard(confirmed) ==
    IF isIOS /\ ~isAppInstalled THEN "ios-install-required"
    ELSE "error"

\* lines 166-176
EvalCatch(confirmed) ==
    IF isIOS /\ ~isAppInstalled THEN "ios-install-required"
    ELSE IF ~confirmed THEN "error"
    ELSE "unchanged"

\* the timer of line 103 fires: checkAndUpdateStatus from its entry to its first
\* await (line 143), or to its end at line 139.  It is the one call site of
\* checkAndUpdateStatus, and the timer is armed once.
EvalTimer ==
    /\ timerPending
    /\ timerPending' = FALSE
    /\ IF ~arePushNotificationsSupported
       THEN /\ evalCalls' = Append(evalCalls, EvalDone(EvalUnsupported))
            /\ Render(EvalUnsupported)
       ELSE /\ evalCalls' = Append(evalCalls, NewEval)
            /\ UNCHANGED << ui, currentStatus >>
    /\ UNCHANGED << env, isSubscriptionConfirmed, sdk, appInit, enableCalls,
                    registerRequests, installVars >>

\* a query of call i rejects: the catch of lines 166-176
EvalReject(i) ==
    /\ i \in 1..Len(evalCalls)
    /\ evalCalls[i].pc \in {"isPushEnabled", "permission", "userId"}
    /\ LET r == EvalCatch(isSubscriptionConfirmed) IN
       /\ evalCalls' = [evalCalls EXCEPT ![i] = EvalEnd(evalCalls[i], r)]
       /\ ApplyResolved(r)
    /\ UNCHANGED << env, isSubscriptionConfirmed, sdk, timerPending, appInit,
                    enableCalls, registerRequests, installVars >>

\* line 143 resumes
EvalPushEnabled(i, r) ==
    /\ i \in 1..Len(evalCalls)
    /\ evalCalls[i].pc = "isPushEnabled"
    /\ evalCalls' = [evalCalls EXCEPT ![i].pc = "permission", ![i].isPushEnabled = r]
    /\ UNCHANGED << env, isSubscriptionConfirmed, ui, currentStatus, sdk, timerPending,
                    appInit, enableCalls, registerRequests, installVars >>

\* line 144 resumes
EvalPermission(i, r) ==
    /\ i \in 1..Len(evalCalls)
    /\ evalCalls[i].pc = "permission"
    /\ evalCalls' = [evalCalls EXCEPT ![i].pc = "userId", ![i].permission = r]
    /\ UNCHANGED << env, isSubscriptionConfirmed, ui, currentStatus, sdk, timerPending,
                    appInit, enableCalls, registerRequests, installVars >>

\* line 145 resumes; lines 155-165
EvalUserId(i, r) ==
    /\ i \in 1..Len(evalCalls)
    /\ evalCalls[i].pc = "userId"
    /\ LET c == evalCalls[i]
           d == EvalDecide(c.isPushEnabled, c.permission, r, isSubscriptionConfirmed)
       IN /\ evalCalls' = [evalCalls EXCEPT ![i] = EvalEnd(c, d)]
          /\ isSubscriptionConfirmed' =
                 IF d = "subscribed" THEN TRUE ELSE isSubscriptionConfirmed
          /\ ApplyResolved(d)
    /\ UNCHANGED << env, sdk, timerPending, appInit, enableCalls,
                    registerRequests, installVars >>

----------------------------------------------------------------------------
(* The OneSignal.push callback of lines 77-118 and the listener it registers *)

\* the callback runs no more than the SDK's init, the timer and the listener
SdkInit_AutoPrompt ==
    /\ sdk = "stub"
    /\ sdk' = "ready"
    /\ timerPending' = TRUE
    /\ registerRequests' = registerRequests + 1
    /\ UNCHANGED << env, isSubscriptionConfirmed, ui, currentStatus, appInit, evalCalls,
                    enableCalls, installVars >>

\* the SDK loads and runs the queued callback
SdkInit ==
    /\ sdk = "stub"
    /\ sdk' = "ready"
    /\ timerPending' = TRUE
    /\ UNCHANGED << env, isSubscriptionConfirmed, ui, currentStatus, appInit, evalCalls,
                    enableCalls, registerRequests, installVars >>

\* the listener copies what the SDK reports into the flag
SubscriptionChange_Mirrors(isSubscribed) ==
    /\ sdk = "ready"
    /\ isSubscriptionConfirmed' = isSubscribed
    /\ IF isSubscribed
       THEN /\ Render("subscribed")
            /\ evalCalls' = EvalNotified
       ELSE UNCHANGED << ui, currentStatus, evalCalls >>
    /\ UNCHANGED << env, sdk, timerPending, appInit, enableCalls, registerRequests,
                    installVars >>

\* the listener renders 'unsubscribed' when the SDK reports false
SubscriptionChange_RendersUnsubscribed(isSubscribed) ==
    /\ sdk = "ready"
    /\ IF isSubscribed
       THEN /\ isSubscriptionConfirmed' = TRUE
            /\ Render("subscribed")
            /\ evalCalls' = EvalNotified
       ELSE /\ Render("unsubscribed")
            /\ UNCHANGED << isSubscriptionConfirmed, evalCalls >>
    /\ UNCHANGED << env, sdk, timerPending, appInit, enableCalls, registerRequests,
                    installVars >>

\* lines 108-117
SubscriptionChange(isSubscribed) ==
    /\ sdk = "ready"
    /\ IF isSubscribed
       THEN /\ isSubscriptionConfirmed' = TRUE
            /\ Render("subscribed")
            /\ evalCalls' = EvalNotified
       ELSE UNCHANGED << isSubscriptionConfirmed, ui, currentStatus, evalCalls >>
    /\ UNCHANGED << env, sdk, timerPending, appInit, enableCalls, registerRequests,
                    installVars >>

----------------------------------------------------------------------------
(* NotificationStateController: handleEnableNotifications *)

\* a call's position, the permission it read, and what it rendered last
NewEnable == [pc |-> "register", permission |-> "none", resolved |-> "none"]

\* lines 296-297
ButtonInProgress(u) == [u EXCEPT !.disabled = TRUE, !.label = "Attivazione..."]

\* line 329 and line 337 alone: the button is enabled, its label not put back
ButtonIdle_KeepLabel(u) == [u EXCEPT !.disabled = FALSE]

\* lines 329-330 and 337-338
ButtonIdle(u) == [u EXCEPT !.disabled = FALSE, !.label = "Attiva Notifiche"]

\* lines 341-352: the status the catch renders
EnableCatchStatus(error) ==
    IF error = "domain" THEN "domain-error"
    ELSE IF isIOS /\ ~isAppInstalled THEN "ios-install-required"
    ELSE "error"

\* lines 333-353 without lines 337-338: the button is not put back
EnableCatch_NoReset(u, error) ==
    /\ ui' = updateUIStatus(u, EnableCatchStatus(error))
    /\ currentStatus' = EnableCatchStatus(error)

\* lines 333-353, from the DOM u the catch finds
EnableCatch(u, error) ==
    /\ ui' = updateUIStatus(ButtonIdle(u), EnableCatchStatus(error))
    /\ currentStatus' = EnableCatchStatus(error)

\* lines 280-305 with the registration request issued ahead of the test of
\* line 282
ClickEnable_RegistersFirst ==
    /\ ~ui.disabled
    /\ Len(enableCalls) < MaxClicks
    /\ IF sdk = "stub"
       THEN /\ EnableCatch(ButtonInProgress(ui), "other")
            /\ enableCalls' = Append(enableCalls,
                   [NewEnable EXCEPT !.pc = "done",
                                     !.resolved = EnableCatchStatus("other")])
            /\ UNCHANGED registerRequests
       ELSE IF ~arePushNotificationsSupported
       THEN /\ Render(EvalUnsupported)
            /\ enableCalls' = Append(enableCalls,
                   [NewEnable EXCEPT !.pc = "done", !.resolved = EvalUnsupported])
            /\ registerRequests' = registerRequests + 1
       ELSE /\ ui' = ButtonInProgress(ui)
            /\ registerRequests' = registerRequests + 1
            /\ enableCalls' = Append(enableCalls, NewEnable)
            /\ UNCHANGED currentStatus
    /\ UNCHANGED << env, isSubscriptionConfirmed, sdk, timerPending, appInit,
                    evalCalls, installVars >>

\* a click on the notification button: lines 280-305.  A disabled button
\* dispatches no click.
ClickEnable ==
    /\ ~ui.disabled
    /\ Len(enableCalls) < MaxClicks
    /\ IF ~arePushNotificationsSupported
       THEN /\ Render(EvalUnsupported)
            /\ enableCalls' = Append(enableCalls,
                   [NewEnable EXCEPT !.pc = "done", !.resolved = EvalUnsupported])
            /\ UNCHANGED registerRequests
       ELSE IF sdk = "stub"
       THEN \* OneSignal is still the array: line 305 throws before any request
            /\ EnableCatch(ButtonInProgress(ui), "other")
            /\ enableCalls' = Append(enableCalls,
                   [NewEnable EXCEPT !.pc = "done",
                                     !.resolved = EnableCatchStatus("other")])
            /\ UNCHANGED registerRequests
       ELSE /\ ui' = ButtonInProgress(ui)
            /\ registerRequests' = registerRequests + 1
            /\ enableCalls' = Append(enableCalls, NewEnable)
            /\ UNCHANGED currentStatus
    /\ UNCHANGED << env, isSubscriptionConfirmed, sdk, timerPending, appInit,
                    evalCalls, installVars >>

\* an awaited SDK call of handler i rejects: lines 333-353
EnableReject(i, error) ==
    /\ i \in 1..Len(enableCalls)
    /\ enableCalls[i].pc \in {"register", "permission", "userId"}
    /\ EnableCatch(ui, error)
    /\ enableCalls' = [enableCalls EXCEPT ![i].pc = "done",
                                          ![i].resolved = EnableCatchStatus(error)]
    /\ UNCHANGED << env, isSubscriptionConfirmed, sdk, timerPending, appInit,
                    evalCalls, registerRequests, installVars >>

\* line 305 resumes
EnableRegistered(i) ==
    /\ i \in 1..Len(enableCalls)
    /\ enableCalls[i].pc = "register"
    /\ enableCalls' = [enableCalls EXCEPT ![i].pc = "permission"]
    /\ UNCHANGED << env, isSubscriptionConfirmed, ui, currentStatus, sdk, timerPending,
                    appInit, evalCalls, registerRequests, installVars >>

\* line 310 resumes; lines 313-331
EnablePermission(i, permission) ==
    /\ i \in 1..Len(enableCalls)
    /\ enableCalls[i].pc = "permission"
    /\ CASE permission = "granted" ->
              /\ isSubscriptionConfirmed' = TRUE
              /\ Render("subscribed")
              /\ enableCalls' = [enableCalls EXCEPT ![i].pc = "userId",
                                    ![i].permission = permission,
                                    ![i].resolved = "subscribed"]
         [] permission = "denied" ->
              /\ Render("denied")
              /\ enableCalls' = [enableCalls EXCEPT ![i].pc = "done",
                                    ![i].permission = permission,
                                    ![i].resolved = "denied"]
              /\ UNCHANGED isSubscriptionConfirmed
         [] OTHER ->
              /\ ui' = ButtonIdle(ui)
              /\ enableCalls' = [enableCalls EXCEPT ![i].pc = "done",
                                    ![i].permission = permission,
                                    ![i].resolved = "unchanged"]
              /\ UNCHANGED << isSubscriptionConfirmed, currentStatus >>
    /\ UNCHANGED << env, sdk, timerPending, appInit, evalCalls, registerRequests, installVars >>

\* line 319 resumes; lines 320-324
EnableUserId(i, r) ==
    /\ i \in 1..Len(enableCalls)
    /\ enableCalls[i].pc = "userId"
    /\ enableCalls' = [enableCalls EXCEPT ![i].pc = "done"]
    /\ UNCHANGED << env, isSubscriptionConfirmed, ui, currentStatus, sdk, timerPending,
                    appInit, evalCalls, registerRequests, installVars >>

----------------------------------------------------------------------------
(* InstallFlowController *)

\* lines 463-498, as the new << installCard, btnInstall >>
showInstallCardOnMobile ==
    IF isAppInstalled
    THEN << [installCard EXCEPT !.hidden = TRUE], btnInstall >>
    ELSE IF isMobileDevice
    THEN << [installCard EXCEPT !.hidden = FALSE],
            IF deferredInstallPrompt = 0
            THEN [label |-> IF isIOS THEN "Aggiungi a Home" ELSE "Installa App",
                  onclick |-> "showManualInstallInstructions"]
            ELSE btnInstall >>
    ELSE << installCard, btnInstall >>

\* lines 515-531: the platform delivers a new capability
BeforeInstallPrompt ==
    /\ capsDelivered < MaxCaps
    /\ capsDelivered' = capsDelivered + 1
    /\ deferredInstallPrompt' = capsDelivered + 1
    /\ installCard' = [installCard EXCEPT !.hidden = FALSE]
    /\ btnInstall' = [label |-> "Installa sulla Home", onclick |-> "handleInstallClick"]
    /\ UNCHANGED << env, notifVars, appInit, installCalls, promptCalls,
                    installClicks, manualShown, consumedClicks >>

\* handleInstallClick from its entry to its await: lines 539-549.  st is
\* [calls, prompts]; throws says whether prompt() throws.
InstallEnter(st, throws) ==
    IF deferredInstallPrompt = 0
    THEN st
    ELSE [calls   |-> IF throws
                      THEN Append(st.calls, [pc |-> "done", cap |-> deferredInstallPrompt,
                                             outcome |-> "threw"])
                      ELSE Append(st.calls, [pc |-> "userChoice",
                                             cap |-> deferredInstallPrompt,
                                             outcome |-> "none"]),
          prompts |-> [st.prompts EXCEPT ![deferredInstallPrompt] = @ + 1]]

\* capability c was used to its outcome by some call of handleInstallClick
Consumed(c) ==
    \E i \in 1..Len(installCalls) :
        installCalls[i].cap = c /\ installCalls[i].outcome \in {"accepted", "dismissed"}

\* a click on the install button: the listener of line 570 runs, then the
\* handler held by the onclick property
ClickInstall(throws1, throws2) ==
    /\ installClicks < MaxInstallClicks
    /\ installClicks' = installClicks + 1
    /\ LET s0 == [calls |-> installCalls, prompts |-> promptCalls]
           s1 == InstallEnter(s0, throws1)
           s2 == IF btnInstall.onclick = "handleInstallClick"
                 THEN InstallEnter(s1, throws2) ELSE s1
       IN /\ installCalls' = s2.calls
          /\ promptCalls' = s2.prompts
    /\ manualShown' = IF btnInstall.onclick = "showManualInstallInstructions"
                      THEN manualShown + 1 ELSE manualShown
    /\ consumedClicks' = IF deferredInstallPrompt = 0 /\ \E c \in 1..MaxCaps : Consumed(c)
                         THEN consumedClicks + 1 ELSE consumedClicks
    /\ UNCHANGED << env, notifVars, appInit, deferredInstallPrompt, installCard,
                    btnInstall, capsDelivered >>

\* the userChoice of a capability settles once: every handler awaiting it sees
\* the same outcome
ChoiceAgrees(i, outcome) ==
    \A j \in 1..Len(installCalls) :
        (j # i /\ installCalls[j].cap = installCalls[i].cap
               /\ installCalls[j].outcome \in {"accepted", "dismissed", "rejected"})
        => installCalls[j].outcome = outcome

\* lines 551-566 without line 559: the used capability stays stored
InstallChoice_KeepsPrompt(i, outcome) ==
    /\ i \in 1..Len(installCalls)
    /\ installCalls[i].pc = "userChoice"
    /\ ChoiceAgrees(i, outcome)
    /\ installCalls' = [installCalls EXCEPT ![i].pc = "done", ![i].outcome = outcome]
    /\ IF outcome = "rejected"
       THEN UNCHANGED << deferredInstallPrompt, installCard >>
       ELSE /\ UNCHANGED deferredInstallPrompt
            /\ installCard' = [installCard EXCEPT !.hidden = TRUE]
    /\ UNCHANGED << env, notifVars, appInit, btnInstall, promptCalls, capsDelivered,
                    installClicks, manualShown, consumedClicks >>

\* lines 551-566 with line 562 moved into the test of line 553
InstallChoice_HidesOnAccept(i, outcome) ==
    /\ i \in 1..Len(installCalls)
    /\ installCalls[i].pc = "userChoice"
    /\ ChoiceAgrees(i, outcome)
    /\ installCalls' = [installCalls EXCEPT ![i].pc = "done", ![i].outcome = outcome]
    /\ IF outcome = "rejected"
       THEN UNCHANGED << deferredInstallPrompt, installCard >>
       ELSE /\ deferredInstallPrompt' = 0
            /\ installCard' = IF outcome = "accepted"
                              THEN [installCard EXCEPT !.hidden = TRUE]
                              ELSE installCard
    /\ UNCHANGED << env, notifVars, appInit, btnInstall, promptCalls, capsDelivered,
                    installClicks, manualShown, consumedClicks >>

\* line 549 resumes; lines 551-566
InstallChoice(i, outcome) ==
    /\ i \in 1..Len(installCalls)
    /\ installCalls[i].pc = "userChoice"
    /\ ChoiceAgrees(i, outcome)
    /\ installCalls' = [installCalls EXCEPT ![i].pc = "done", ![i].outcome = outcome]
    /\ IF outcome = "rejected"
       THEN UNCHANGED << deferredInstallPrompt, installCard >>
       ELSE /\ deferredInstallPrompt' = 0
            /\ installCard' = [installCard EXCEPT !.hidden = TRUE]
    /\ UNCHANGED << env, notifVars, appInit, btnInstall, promptCalls, capsDelivered,
                    installClicks, manualShown, consumedClicks >>

\* lines 575-583
AppInstalled ==
    /\ installCard' = [installCard EXCEPT !.hidden = TRUE]
    /\ deferredInstallPrompt' = 0
    /\ UNCHANGED << env, notifVars, appInit, btnInstall, installCalls, promptCalls,
                    capsDelivered, installClicks, manualShown, consumedClicks >>

----------------------------------------------------------------------------
(* Bootstrap *)

\* lines 592-614: TRUE when the browser has what the page requires
checkBrowserSupport ==
    IF ~env.serviceWorker THEN FALSE
    ELSE IF ~env.pushManager \/ ~env.notification THEN FALSE
    ELSE TRUE

\* lines 660-691, checkBrowserSupport's rendering included
InitApp ==
    /\ appInit = "pending"
    /\ appInit' = "done"
    /\ IF ~checkBrowserSupport
       THEN /\ Render("error")
            /\ UNCHANGED << installCard, btnInstall >>
       ELSE /\ IF isIOS /\ ~isAppInstalled
               THEN Render("ios-install-required")
               ELSE UNCHANGED << ui, currentStatus >>
            /\ installCard' = showInstallCardOnMobile[1]
            /\ btnInstall' = showInstallCardOnMobile[2]
    /\ UNCHANGED << env, isSubscriptionConfirmed, sdk, timerPending, evalCalls,
                    enableCalls, registerRequests, deferredInstallPrompt,
                    installCalls, promptCalls, capsDelivered, installClicks, manualShown,
                    consumedClicks >>

----------------------------------------------------------------------------
(* The page *)

\* the DOM as the page's markup gives it: badge hidden, button idle
FreshUI == [badge |-> {"hidden"}, text |-> "", disabled |-> FALSE,
            label |-> "Attiva Notifiche"]

\* the script's top-level declarations: lines 51, 70, 75
ScriptLoaded ==
    /\ isSubscriptionConfirmed = FALSE
    /\ currentStatus = "none"
    /\ sdk = "stub"
    /\ timerPending = FALSE
    /\ appInit = "pending"
    /\ evalCalls = << >>
    /\ enableCalls = << >>
    /\ registerRequests = 0
    /\ deferredInstallPrompt = 0
    /\ installCard = [hidden |-> TRUE]
    /\ btnInstall = [label |-> "Installa sulla Home", onclick |-> "none"]
    /\ installCalls = << >>
    /\ promptCalls = [c \in 1..MaxCaps |-> 0]
    /\ capsDelivered = 0
    /\ installClicks = 0
    /\ manualShown = 0
    /\ consumedClicks = 0

Init ==
    /\ env \in Env
    /\ ui = FreshUI
    /\ ScriptLoaded

\* the steps of the notification controller
NotificationNext ==
    \/ SdkInit
    \/ EvalTimer
    \/ \E i \in 1..Len(evalCalls) : EvalReject(i)
    \/ \E i \in 1..Len(evalCalls), r \in PushEnabledResults : EvalPushEnabled(i, r)
    \/ \E i \in 1..Len(evalCalls), r \in PermissionResults : EvalPermission(i, r)
    \/ \E i \in 1..Len(evalCalls), r \in UserIdResults : EvalUserId(i, r)
    \/ \E b \in BOOLEAN : SubscriptionChange(b)
    \/ ClickEnable
    \/ \E i \in 1..Len(enableCalls), e \in SdkErrors : EnableReject(i, e)
    \/ \E i \in 1..Len(enableCalls) : EnableRegistered(i)
    \/ \E i \in 1..Len(enableCalls), r \in PermissionResults : EnablePermission(i, r)
    \/ \E i \in 1..Len(enableCalls), r \in UserIdResults : EnableUserId(i, r)

\* the steps of the install flow
InstallNext ==
    \/ BeforeInstallPrompt
    \/ \E t1, t2 \in BOOLEAN : ClickInstall(t1, t2)
    \/ \E i \in 1..Len(installCalls), o \in {"accepted", "dismissed", "rejected"} :
           InstallChoice(i, o)
    \/ AppInstalled

\* The two controllers share no variable: only init() writes to both.  Spec is
\* the page with the notification controller's events, InstallSpec the page
\* with the install flow's events.
Next == InitApp \/ NotificationNext

Spec == Init /\ [][Next]_vars

InstallStep == InitApp \/ InstallNext

InstallSpec == Init /\ [][InstallStep]_vars

----------------------------------------------------------------------------
(* updateUIStatus on its own: every DOM the badge and the button can be in,
   and every status (one of them unknown to the switch) *)

UIStates == [badge : SUBSET StyleClasses, text : StatusTexts,
             disabled : BOOLEAN, label : ButtonLabels]

RenderInit ==
    /\ env = [notification |-> TRUE, serviceWorker |-> TRUE, pushManager |-> TRUE,
              ios |-> FALSE, android |-> FALSE, mobile |-> FALSE, standalone |-> FALSE]
    /\ ui \in UIStates
    /\ ScriptLoaded

RenderStatus(status) ==
    /\ Render(status)
    /\ UNCHANGED << env, isSubscriptionConfirmed, sdk, timerPending, appInit, evalCalls,
                    enableCalls, registerRequests, installVars >>

RenderNext == \E status \in Status \cup UnknownStatus : RenderStatus(status)

RenderSpec == RenderInit /\ [][RenderNext]_vars

----------------------------------------------------------------------------
(* Steps the properties speak of *)

\* call i of checkAndUpdateStatus ends in this step
EvalEnds(i) ==
    /\ i \in 1..Len(evalCalls')
    /\ evalCalls'[i].pc = "done"
    /\ (i > Len(evalCalls) \/ evalCalls[i].pc # "done")

\* call i of handleEnableNotifications ends in this step
EnableEnds(i) ==
    /\ i \in 1..Len(enableCalls')
    /\ enableCalls'[i].pc = "done"
    /\ (i > Len(enableCalls) \/ enableCalls[i].pc # "done")

\* a reconciliation step completes: evaluate(), activateSubscription() or the
\* subscription-change callback
ReconciliationEnds ==
    \/ \E i \in 1..Len(evalCalls') : EvalEnds(i)
    \/ \E i \in 1..Len(enableCalls') : EnableEnds(i)
    \/ \E b \in BOOLEAN : SubscriptionChange(b)

\* call i of checkAndUpdateStatus ends in this step on SDK reads that are not
\* affirmative: push-enabled false and not (granted with a subscriber id), or a
\* rejected query
EvalEndsNonAffirmative(i) ==
    \/ EvalReject(i)
    \/ \E r \in UserIdResults :
          /\ EvalUserId(i, r)
          /\ evalCalls[i].isPushEnabled = "false"
          /\ ~ (evalCalls[i].permission = "granted" /\ r = "present")

\* the same, the reads of permission 'denied' left out
EvalEndsIndeterminate(i) ==
    \/ EvalReject(i) /\ ~IosNotInstalled
    \/ \E r \in UserIdResults :
          /\ EvalUserId(i, r)
          /\ evalCalls[i].isPushEnabled = "false"
          /\ evalCalls[i].permission # "denied"
          /\ ~ (evalCalls[i].permission = "granted" /\ r = "present")

\* updateUIStatus(status) is the last thing this step did to the DOM
Rendered(status) ==
    \/ InitApp /\ currentStatus' = status
               /\ (~checkBrowserSupport \/ IosNotInstalled)
    \/ SubscriptionChange(TRUE) /\ status = "subscribed"
    \/ \E i \in 1..Len(evalCalls') : EvalEnds(i) /\ evalCalls'[i].resolved = status
    \/ \E i \in 1..Len(enableCalls) : EnablePermission(i, "granted") /\ status = "subscribed"
    \/ \E i \in 1..Len(enableCalls') :
          /\ EnableEnds(i)
          /\ enableCalls'[i].resolved = status
          /\ (i > Len(enableCalls) \/ enableCalls[i].pc # "userId"
                \/ \E e \in SdkErrors : EnableReject(i, e))

\* Notification or ServiceWorker is missing and the iOS rule does not apply
CapabilityAbsent ==
    /\ ~env.notification \/ ~env.serviceWorker
    /\ ~IosNotInstalled

----------------------------------------------------------------------------
(* Properties *)

\* C1: right after every reconciliation step (evaluate(), activateSubscription(),
\* the subscription-change callback), confirmed implies that the rendered
\* status is subscribed.
C1_ConfirmedImpliesSubscribed ==
    [][ReconciliationEnds =>
           (isSubscriptionConfirmed' => currentStatus' = "subscribed")]_vars

C3_RegisterOnlyOnClick ==
    [][registerRequests' # registerRequests => ClickEnable]_vars

\* C3 witness: a registration request was issued, and init(), the SDK callback
\* and an evaluate() have all run.
C3_Witness ==
    /\ registerRequests > 0
    /\ appInit = "done"
    /\ sdk = "ready"
    /\ Len(evalCalls) > 0

\* C4: on iOS outside standalone mode, push is unsupported whatever the
\* Notification / ServiceWorker flags, and every evaluate() and every
\* activateSubscription() has ended at once, resolved to ios-install-required.
C4_IOSGating ==
    IosNotInstalled =>
        /\ ~arePushNotificationsSupported
        /\ \A i \in 1..Len(evalCalls) :
              evalCalls[i].pc = "done" /\ evalCalls[i].resolved = "ios-install-required"
        /\ \A i \in 1..Len(enableCalls) :
              enableCalls[i].pc = "done" /\ enableCalls[i].resolved = "ios-install-required"

\* C4 witness: iOS, not standalone, Notification and ServiceWorker present; an
\* evaluate() and a click have both been handled.
C4_Witness ==
    /\ IosNotInstalled
    /\ env.notification /\ env.serviceWorker
    /\ Len(evalCalls) > 0
    /\ Len(enableCalls) > 0
    /\ currentStatus = "ios-install-required"

\* a click on the install button
ClickInstallStep == \E t1, t2 \in BOOLEAN : ClickInstall(t1, t2)

C6_CapabilityAbsentRendersNotSupported ==
    [][(CapabilityAbsent
          /\ (InitApp \/ EvalTimer \/ ClickEnable))
          => \/ UNCHANGED << ui, currentStatus >>
             \/ currentStatus' = "not-supported" /\ ui'.disabled]_vars

\* C7: after render(status) the presentation depends on status alone: badge,
\* status text, button label and button flag are those render(status) gives on
\* the fresh page, whatever was rendered before.
C7_PresentationByStatusAlone ==
    [][\A status \in Status :
          Rendered(status) => ui' = updateUIStatus(FreshUI, status)]_vars

\* C8: after every render, from any badge, exactly one of the four style
\* classes is on the badge; a status the switch does not know is rendered as
\* 'default' is: badge hidden, button enabled, label 'Attiva Notifiche'.
C8_OneStyleAndDefaultFallback ==
    [][RenderNext =>
          /\ Cardinality(ui'.badge \cap StyleClasses) = 1
          /\ currentStatus' \notin Status =>
                /\ ui' = updateUIStatus(ui, "default")
                /\ ui'.badge = {"hidden"}
                /\ ~ui'.disabled
                /\ ui'.label = "Attiva Notifiche"]_vars

\* C8 witness: an unknown status was rendered over a badge that carried the
\* text of 'denied'.
C8_Witness ==
    /\ currentStatus \in UnknownStatus
    /\ ui.badge = {"hidden"}
    /\ ui.text = "Notifiche bloccate nel browser"

\* C9: render is idempotent: rendering the current status once more leaves the
\* DOM as it is.
C9_RenderIdempotent ==
    currentStatus # "none" => updateUIStatus(ui, currentStatus) = ui

\* C9 witness: 'error', which assigns no label, was rendered over another
\* status's label.
C9_Witness ==
    /\ currentStatus = "error"
    /\ ui.label = "Notifiche Bloccate"

\* C10: when activateSubscription() ends after a permission re-read of
\* 'granted', confirmed is true, the status is subscribed and the button is
\* disabled, whatever the subscriber-id read gave.
C10_GrantedEndsSubscribed ==
    [][\A i \in 1..Len(enableCalls') :
          (EnableEnds(i) /\ enableCalls'[i].permission = "granted")
          => /\ isSubscriptionConfirmed'
             /\ currentStatus' = "subscribed"
             /\ ui'.disabled]_vars

\* the SDK call of handleEnableNotifications fails with error e in this step:
\* an awaited promise rejects, or line 305 throws because the SDK is not loaded
EnableFails(e) ==
    \/ \E i \in 1..Len(enableCalls) : EnableReject(i, e)
    \/ ClickEnable /\ arePushNotificationsSupported /\ sdk = "stub" /\ e = "other"

\* C11: when the SDK call of activateSubscription() fails, the handler ends in
\* that step with the status domain-error for an origin error, otherwise
\* ios-install-required on iOS outside standalone mode, otherwise error; for
\* domain-error and error the button is idle (enabled, 'Attiva Notifiche'), for
\* ios-install-required it is as that status's entry has it (disabled).
C11_FailureClassified ==
    [][\A e \in SdkErrors :
          EnableFails(e) =>
             /\ currentStatus' = (IF e = "domain" THEN "domain-error"
                                  ELSE IF env.ios /\ ~env.standalone
                                  THEN "ios-install-required"
                                  ELSE "error")
             /\ currentStatus' \in {"domain-error", "error"} =>
                    ~ui'.disabled /\ ui'.label = "Attiva Notifiche"
             /\ currentStatus' = "ios-install-required" => ui'.disabled
             /\ ui'.badge \cap StyleClasses =
                    (IF currentStatus' = "domain-error" THEN {"error"} ELSE {"warning"})
             /\ \E i \in 1..Len(enableCalls') : EnableEnds(i)]_vars

\* C11 witness: a registration request was rejected with an origin error; the
\* page shows domain-error and the button is idle.
C11_Witness ==
    /\ currentStatus = "domain-error"
    /\ registerRequests > 0
    /\ \E i \in 1..Len(enableCalls) :
          enableCalls[i].pc = "done" /\ enableCalls[i].resolved = "domain-error"
    /\ ~ui.disabled
    /\ ui.label = "Attiva Notifiche"

\* some call of handleEnableNotifications has started and not ended
EnableInFlight == \E i \in 1..Len(enableCalls) : enableCalls[i].pc # "done"

\* C12: whenever no activateSubscription() is in flight, the notification
\* button does not carry the in-progress label 'Attivazione...'.
C12_NoStuckInProgress ==
    ~EnableInFlight => ui.label # "Attivazione..."

\* C12 witness: two activations entered the in-progress presentation and have
\* ended, one by a dismissed prompt and one by an SDK failure; an evaluate()
\* has ended too.
C12_Witness ==
    /\ ~EnableInFlight
    /\ registerRequests = 2
    /\ \E i, j \in 1..Len(enableCalls) :
          /\ enableCalls[i].resolved = "unchanged"
          /\ enableCalls[j].resolved = "error"
    /\ \E i \in 1..Len(evalCalls) : evalCalls[i].pc = "done"

\* C13: the confirmed flag starts false and no step takes it from true to
\* false.
C13_ConfirmedMonotonic ==
    /\ ~isSubscriptionConfirmed
    /\ [][isSubscriptionConfirmed => isSubscriptionConfirmed']_vars

\* C13 witness: the flag is set, and since then an activation has ended in its
\* catch and an evaluate() has ended without rendering.
C13_Witness ==
    /\ isSubscriptionConfirmed
    /\ currentStatus = "error"
    /\ \E i \in 1..Len(enableCalls) :
          enableCalls[i].pc = "done" /\ enableCalls[i].permission = "granted"
    /\ \E i \in 1..Len(evalCalls) :
          evalCalls[i].pc = "done" /\ evalCalls[i].resolved = "unchanged"

\* registration requests issued and not yet settled
RegistrationsInFlight == {i \in 1..Len(enableCalls) : enableCalls[i].pc = "register"}

\* C14: while an activateSubscription() is suspended in the SDK the
\* notification button is disabled, and at most one registration request is
\* in flight.
C14_OneRegistrationInFlight ==
    /\ EnableInFlight => ui.disabled
    /\ Cardinality(RegistrationsInFlight) <= 1

\* call i of checkAndUpdateStatus ends in this step on push-enabled false with
\* permission 'default', or on a rejected query off iOS-outside-standalone
EvalEndsStale(i) ==
    \/ EvalReject(i) /\ ~IosNotInstalled
    \/ \E r \in UserIdResults :
          /\ EvalUserId(i, r)
          /\ evalCalls[i].isPushEnabled = "false"
          /\ evalCalls[i].permission = "default"

\* C15: an evaluate() that was suspended when a subscription-change callback
\* reported subscribed, and that resumes on push-enabled false with permission
\* 'default' or on a rejected query off iOS, writes nothing: confirmed stays
\* true and the status and the DOM stay as they were, subscribed if the
\* callback's render was the last one.
C15_CallbackSurvivesEvaluate ==
    [][\A i \in 1..Len(evalCalls) :
          (evalCalls[i].notified /\ EvalEndsStale(i))
          => /\ isSubscriptionConfirmed /\ isSubscriptionConfirmed'
             /\ UNCHANGED << ui, currentStatus >>
             /\ evalCalls'[i].resolved = "unchanged"]_vars

\* C15 witness: an evaluate() that the callback overtook has ended without
\* rendering; the page is still confirmed and subscribed.
C15_Witness ==
    /\ isSubscriptionConfirmed
    /\ currentStatus = "subscribed"
    /\ ui = updateUIStatus(FreshUI, "subscribed")
    /\ \E i \in 1..Len(evalCalls) :
          /\ evalCalls[i].pc = "done"
          /\ evalCalls[i].notified
          /\ evalCalls[i].resolved = "unchanged"

\* the reference algorithm of evaluate(): the status it resolves to, "unchanged"
\* when it leaves the status alone.  failed: a query was rejected.
RefEvaluate(supported, iosTab, pushEnabled, permission, userId, failed, confirmed) ==
    IF ~supported
    THEN (IF iosTab THEN "ios-install-required" ELSE "not-supported")
    ELSE IF failed
    THEN (IF iosTab THEN "ios-install-required"
          ELSE IF ~confirmed THEN "error" ELSE "unchanged")
    ELSE IF pushEnabled = "true" \/ (permission = "granted" /\ userId = "present")
    THEN "subscribed"
    ELSE IF permission = "denied" THEN "denied"
    ELSE IF ~confirmed THEN "default"
    ELSE "unchanged"

\* this step resolves to status s: s is rendered and stored, confirmed is set
\* when s is subscribed; nothing is written when s is "unchanged"
Resolves(s) ==
    /\ isSubscriptionConfirmed' = (isSubscriptionConfirmed \/ s = "subscribed")
    /\ IF s = "unchanged"
       THEN UNCHANGED << ui, currentStatus >>
       ELSE currentStatus' = s /\ ui' = updateUIStatus(ui, s)

\* C16: every evaluate() resolves as the reference algorithm does on the
\* capability flags, the SDK results (or the query failure) and the value of
\* confirmed it meets; while it awaits its queries it writes nothing.
C16_EvaluateAsReference ==
    [][\A i \in 1..Len(evalCalls') :
          /\ (EvalEnds(i) /\ i > Len(evalCalls)) =>
                /\ ~arePushNotificationsSupported
                /\ Resolves(RefEvaluate(FALSE, env.ios /\ ~env.standalone, "none",
                                        "none", "none", FALSE, isSubscriptionConfirmed))
          /\ (EvalEnds(i) /\ i <= Len(evalCalls)) =>
                /\ EvalReject(i) \/ \E r \in UserIdResults : EvalUserId(i, r)
                /\ \A r \in UserIdResults :
                      EvalUserId(i, r) =>
                         Resolves(RefEvaluate(TRUE, env.ios /\ ~env.standalone,
                                              evalCalls[i].isPushEnabled,
                                              evalCalls[i].permission, r, FALSE,
                                              isSubscriptionConfirmed))
                /\ EvalReject(i) =>
                      Resolves(RefEvaluate(TRUE, env.ios /\ ~env.standalone, "none",
                                           "none", "none", TRUE, isSubscriptionConfirmed))
          /\ (evalCalls'[i].pc # "done"
                /\ (i > Len(evalCalls) \/ evalCalls[i].pc # evalCalls'[i].pc)) =>
                /\ arePushNotificationsSupported
                /\ UNCHANGED << ui, currentStatus, isSubscriptionConfirmed >>]_vars

\* C16 witness: an evaluate() met confirmed true and a permission read of
\* 'denied', and resolved to denied.
C16_Witness ==
    /\ isSubscriptionConfirmed
    /\ currentStatus = "denied"
    /\ \E i \in 1..Len(evalCalls) :
          evalCalls[i].pc = "done" /\ evalCalls[i].resolved = "denied"

\* call i of handleInstallClick, which found a capability, ends in this step
InstallEnds(i) ==
    /\ i \in 1..Len(installCalls')
    /\ installCalls'[i].pc = "done"
    /\ (i > Len(installCalls) \/ installCalls[i].pc # "done")

\* C17: when an activateInstall() that found a capability ends, whether the
\* user accepted or dismissed or prompt() or the wait for the choice failed,
\* deferredPrompt is absent.
C17_PromptClearedAfterUse ==
    [][\A i \in 1..Len(installCalls') :
          InstallEnds(i) => deferredInstallPrompt' = 0]_vars

\* C18: when init() runs on a mobile device outside standalone mode, no
\* install-available signal having arrived, it leaves the install card visible
\* and the install button wired to the manual instructions, whatever the
\* Notification / ServiceWorker / PushManager flags.
C18_AffordanceAtStartup ==
    [][(InitApp /\ env.mobile /\ ~env.standalone /\ capsDelivered = 0)
          => /\ ~installCard'.hidden
             /\ btnInstall'.onclick = "showManualInstallInstructions"]_vars

\* C19: a click on the notification button where push is unsupported renders
\* ios-install-required (iOS outside standalone mode) or not-supported and
\* ends the handler in that step: no registration request, no query left
\* pending, no in-progress label, confirmed as it was.
C19_UnsupportedClickIsLocal ==
    [][(ClickEnable /\ ~arePushNotificationsSupported)
          => /\ currentStatus' = (IF env.ios /\ ~env.standalone
                                  THEN "ios-install-required" ELSE "not-supported")
             /\ ui' = updateUIStatus(ui, currentStatus')
             /\ ui'.label # "Attivazione..."
             /\ registerRequests' = registerRequests
             /\ isSubscriptionConfirmed' = isSubscriptionConfirmed
             /\ Len(enableCalls') = Len(enableCalls) + 1
             /\ EnableEnds(Len(enableCalls'))
             /\ \A i \in 1..Len(enableCalls) : enableCalls'[i] = enableCalls[i]]_vars

\* C19 witness: with the SDK loaded, a click was handled on a platform without
\* push support; no registration request was ever issued.
C19_Witness ==
    /\ ~arePushNotificationsSupported
    /\ sdk = "ready"
    /\ Len(enableCalls) > 0
    /\ registerRequests = 0
    /\ currentStatus \in {"ios-install-required", "not-supported"}
    /\ ui.disabled

\* C20: a stored capability becomes absent only in a step that ends an
\* activateInstall() run on that capability, or by the install-completed
\* signal; when a call that ran on an earlier capability ends, the capability
\* stored by then stays stored and the install card stays as it is.
C20_PromptLostOnlyByUse ==
    [][/\ (deferredInstallPrompt # 0 /\ deferredInstallPrompt' = 0)
            => \/ AppInstalled
               \/ \E i \in 1..Len(installCalls') :
                     InstallEnds(i) /\ installCalls'[i].cap = deferredInstallPrompt
       /\ \A i \in 1..Len(installCalls) :
            (InstallEnds(i) /\ deferredInstallPrompt # 0
                /\ installCalls[i].cap # deferredInstallPrompt)
            => /\ deferredInstallPrompt' = deferredInstallPrompt
               /\ installCard' = installCard]_vars

\* C21, as claimed: when an activateInstall() that found a capability ends,
\* the install card is hidden if the outcome is accepted and is as it was if
\* the outcome is dismissed.
C21_DismissedKeepsAffordance ==
    [][\A i \in 1..Len(installCalls') :
          InstallEnds(i) =>
             /\ installCalls'[i].outcome = "accepted" => installCard'.hidden
             /\ installCalls'[i].outcome = "dismissed" => installCard' = installCard]_vars

\* C21, amended: the install card is hidden when the outcome is accepted and
\* also when it is dismissed; it is left as it was only when prompt() or the
\* wait for the choice fails.
C21_EitherOutcomeHidesAffordance ==
    [][\A i \in 1..Len(installCalls') :
          InstallEnds(i) =>
             IF installCalls'[i].outcome \in {"accepted", "dismissed"}
             THEN installCard'.hidden
             ELSE installCard' = installCard]_vars

\* C21 witness: the one capability delivered was prompted and dismissed; the
\* card it had revealed is hidden.
C21_Witness ==
    /\ capsDelivered = 1
    /\ \E i \in 1..Len(installCalls) :
          installCalls[i].pc = "done" /\ installCalls[i].outcome = "dismissed"
    /\ installCard.hidden
    /\ deferredInstallPrompt = 0

\* C22: on a page that runs in standalone display mode, once init() has run
\* the install card is hidden, whatever install-available signals,
\* install-completed signals and clicks follow.
C22_StandaloneStaysHidden ==
    (env.standalone /\ appInit = "done") => installCard.hidden

\* C24: prompt() is called at most once on each capability, a click running
\* the registered listener and the onclick handler alike.
C24_PromptOncePerCapability ==
    \A c \in 1..MaxCaps : promptCalls[c] <= 1

\* the positions of the calls of checkAndUpdateStatus
EvalPositions == [i \in 1..Len(evalCalls) |-> evalCalls[i].pc]

\* C23: a subscription-change callback reporting false changes neither
\* confirmed nor the status nor the DOM; one reporting true sets confirmed and
\* renders subscribed in the same step.  Neither starts or moves an SDK query
\* or a registration request.
C23_CallbackFrame ==
    [][/\ SubscriptionChange(FALSE) =>
            UNCHANGED << isSubscriptionConfirmed, currentStatus, ui >>
       /\ SubscriptionChange(TRUE) =>
            /\ isSubscriptionConfirmed'
            /\ currentStatus' = "subscribed"
            /\ ui' = updateUIStatus(ui, "subscribed")
       /\ (\E b \in BOOLEAN : SubscriptionChange(b)) =>
            /\ EvalPositions' = EvalPositions
            /\ UNCHANGED << enableCalls, registerRequests, timerPending >>]_vars

\* C23 witness: the SDK is loaded and no evaluate() and no activation has
\* started, yet the page is confirmed and subscribed: the callback alone did it.
C23_Witness ==
    /\ sdk = "ready"
    /\ timerPending
    /\ evalCalls = << >>
    /\ enableCalls = << >>
    /\ isSubscriptionConfirmed
    /\ currentStatus = "subscribed"
    /\ ui = updateUIStatus(FreshUI, "subscribed")

\* C25: whenever the badge shows the subscribed presentation (success style,
\* 'Notifiche attive'), the notification button is disabled.
C25_SubscribedBadgeDisablesButton ==
    ("success" \in ui.badge /\ ui.text = "Notifiche attive") => ui.disabled

====
